---- MODULE Spec2Model ----
(***************************************************************************)
(* Model of pandas/core/groupby.py: the split-apply-combine engine.        *)
(*                                                                         *)
(* Arrays are 0-based, as in numpy: an array of length n is a function     *)
(* with domain 0..n-1.  Key values are the integers 1..NumKeys; NA (0)     *)
(* stands for a missing key (NaN), which the labelling turns into -1.      *)
(* Row labels of the grouped object are the row positions 0..n-1.          *)
(***************************************************************************)
EXTENDS Integers, Sequences, FiniteSets, TLC

VARIABLES
    scenario,       \* which operation of the module the behaviour exercises
    grouper,        \* Grouping.grouper of each Grouping: the key value of every row
    index,          \* Grouping.index of each Grouping: the row label of every row
    c_labels,       \* Grouping._labels (None until _make_labels has run)
    c_ids,          \* Grouping._ids
    c_counts,       \* Grouping._counts
    makeCalls,      \* how often _make_labels has run on each Grouping
    obj,            \* the grouped object: its kind and number of rows
    func,           \* the behaviour of the user function
    result          \* what the operation returned, or the exception it raised

vars == <<scenario, grouper, index, c_labels, c_ids, c_counts, makeCalls,
          obj, func, result>>

-----------------------------------------------------------------------------
(* Bounds of the model *)

MaxRows == 3

NumKeys == 2

MaxCalls == 2

NA == 0

NoneVal == "None"

\* An optional value: None, or Some(v) whose value is Val(o)
None == << >>

Some(v) == <<v>>

Val(o) == o[1]

KeyValues == 0..NumKeys

-----------------------------------------------------------------------------
(* numpy-like helpers on 0-based arrays *)

ALen(a) == Cardinality(DOMAIN a)

Arrays(S, n) == [0..(n - 1) -> S]

ArraysUpTo(S, n) == UNION {Arrays(S, m) : m \in 0..n}

Range(a) == {a[i] : i \in DOMAIN a}

EmptyArr == [i \in {} |-> 0]

\* 1-based sequence of the elements of a set of integers, ascending
SortedSeq(S) ==
    [j \in 1..Cardinality(S) |->
        CHOOSE v \in S : Cardinality({u \in S : u < v}) = j - 1]

\* 0-based array -> 1-based sequence and back
ToSeq(a) == [j \in 1..ALen(a) |-> a[j - 1]]

ToArr(s) == [i \in 0..(Len(s) - 1) |-> s[i + 1]]

\* ndarray.take(idx), mode='raise': a negative index counts from the end, an index
\* outside [-n, n) raises IndexError
TakeOK(arr, idx) ==
    \A i \in DOMAIN idx : idx[i] >= 0 - ALen(arr) /\ idx[i] < ALen(arr)

Take(arr, idx) ==
    [i \in DOMAIN idx |->
        arr[IF idx[i] < 0 THEN idx[i] + ALen(arr) ELSE idx[i]]]

\* ndarray.argsort() of an array of distinct values: entry j is the position of
\* the value with exactly j smaller values
ArgsortMut(values) == [j \in DOMAIN values |-> j]

Argsort(values) ==
    [j \in DOMAIN values |->
        CHOOSE c \in DOMAIN values :
            Cardinality({d \in DOMAIN values : values[d] < values[c]}) = j]

-----------------------------------------------------------------------------
(* _tseries: the Cython helpers the module calls *)

\* _tseries.group_labels(values): codes in order of first occurrence, -1 for NA
group_labels(values) ==
    LET uniq == Range(values) \ {NA}
        first(v) == CHOOSE i \in DOMAIN values :
                        /\ values[i] = v
                        /\ \A j \in DOMAIN values : values[j] = v => i <= j
        code(v) == Cardinality({u \in uniq : first(u) < first(v)})
        k == Cardinality(uniq)
    IN  [ids    |-> [c \in 0..(k - 1) |-> CHOOSE v \in uniq : code(v) = c],
         labels |-> [i \in DOMAIN values |->
                        IF values[i] = NA THEN -1 ELSE code(values[i])],
         counts |-> [c \in 0..(k - 1) |->
                        Cardinality({i \in DOMAIN values :
                            values[i] # NA /\ code(values[i]) = c})]]

\* _tseries.groupby_indices(values): {key value -> row positions}, NA left out
groupby_indices(values) ==
    [v \in Range(values) \ {NA} |->
        SortedSeq({i \in DOMAIN values : values[i] = v})]

\* _tseries.groupby(index, labels): {key value -> row labels}, NA left out
groupby(idx, values) ==
    [v \in Range(values) \ {NA} |->
        LET pos == SortedSeq({i \in DOMAIN values : values[i] = v})
        IN  [j \in DOMAIN pos |-> idx[pos[j]]]]

-----------------------------------------------------------------------------
(* sort_group_labels *)

\* the same, with new_ids built from values instead of values.take(indexer)
sort_group_labels_unsorted_ids(ids, labels, counts) ==
    LET n == ALen(ids)
        indexer == Argsort(ids)
        reverse_indexer == [c \in 0..(n - 1) |->
                               CHOOSE j \in 0..(n - 1) : indexer[j] = c]
    IN  IF ~TakeOK(reverse_indexer, labels)
        THEN [raised |-> "IndexError"]
        ELSE [raised |-> NoneVal,
              ids    |-> ids,
              labels |-> [i \in DOMAIN labels |->
                            IF labels[i] = -1 THEN -1
                            ELSE Take(reverse_indexer, labels)[i]],
              counts |-> Take(counts, indexer)]

\* the same, with new_counts = counts instead of counts.take(indexer)
sort_group_labels_counts_kept(ids, labels, counts) ==
    LET n == ALen(ids)
        indexer == Argsort(ids)
        reverse_indexer == [c \in 0..(n - 1) |->
                               CHOOSE j \in 0..(n - 1) : indexer[j] = c]
    IN  IF ~TakeOK(reverse_indexer, labels)
        THEN [raised |-> "IndexError"]
        ELSE [raised |-> NoneVal,
              ids    |-> [j \in 0..(n - 1) |-> ids[indexer[j]]],
              labels |-> [i \in DOMAIN labels |->
                            IF labels[i] = -1 THEN -1
                            ELSE Take(reverse_indexer, labels)[i]],
              counts |-> counts]

sort_group_labels(ids, labels, counts) ==
    LET n == ALen(ids)
        values == ids
        indexer == Argsort(values)
        reverse_indexer == [c \in 0..(n - 1) |->
                               CHOOSE j \in 0..(n - 1) : indexer[j] = c]
    IN  IF ~TakeOK(reverse_indexer, labels)
        THEN [raised |-> "IndexError"]
        ELSE [raised |-> NoneVal,
              ids    |-> [j \in 0..(n - 1) |-> values[indexer[j]]],
              labels |-> [i \in DOMAIN labels |->
                            IF labels[i] = -1 THEN -1
                            ELSE Take(reverse_indexer, labels)[i]],
              counts |-> Take(counts, indexer)]

\* Grouping._make_labels
make_labels(values) ==
    LET g == group_labels(values)
    IN  sort_group_labels(g.ids, g.labels, g.counts)

-----------------------------------------------------------------------------
(* Grouping: one key, its cached labelling, and iteration over its groups.    *)
(* Two Groupings hold the same (row label, key value) pairs in two row orders *)

Orderings == {1, 2}

RowOrders(n) ==
    {p \in Arrays(0..(n - 1), n) : \A i, j \in 0..(n - 1) : i # j => p[i] # p[j]}

\* GroupBy.__iter__ with one grouping: the sorted keys, each with get_group(name),
\* the rows of the object whose labels are groups[name]
iter_single(idx, values) ==
    LET names == SortedSeq(DOMAIN groupby_indices(values))
    IN  [j \in DOMAIN names |->
            [name |-> names[j], rows |-> groupby(idx, values)[names[j]]]]

NoGrouping == [g \in Orderings |-> None]

InitGrouping ==
    /\ scenario = "grouping"
    /\ \E n \in 0..MaxRows :
         \E keyOf \in Arrays(KeyValues, n), p \in RowOrders(n) :
            /\ index = [g \in Orderings |->
                            IF g = 1 THEN [i \in 0..(n - 1) |-> i] ELSE p]
            /\ grouper = [g \in Orderings |->
                            IF g = 1 THEN keyOf ELSE [i \in 0..(n - 1) |-> keyOf[p[i]]]]
            /\ obj = [kind |-> "Series", nrows |-> n]
    /\ c_labels = NoGrouping
    /\ c_ids = NoGrouping
    /\ c_counts = NoGrouping
    /\ makeCalls = [g \in Orderings |-> 0]
    /\ func = NoneVal
    /\ result = [g \in Orderings |-> [raised |-> NoneVal, groups |-> None]]

\* A read of a lazily computed attribute whose cache cell is `cell`: the
\* properties labels, ids and counts each run _make_labels when their own cell
\* is None, and _make_labels sets all three cells or raises
ReadCached(g, cell) ==
    /\ scenario = "grouping"
    /\ IF cell[g] # None
       THEN /\ result' = [result EXCEPT ![g].raised = NoneVal]
            /\ UNCHANGED <<c_labels, c_ids, c_counts, makeCalls>>
       ELSE /\ makeCalls[g] < MaxCalls
            /\ makeCalls' = [makeCalls EXCEPT ![g] = @ + 1]
            /\ LET r == make_labels(grouper[g])
               IN  IF r.raised # NoneVal
                   THEN /\ result' = [result EXCEPT ![g].raised = r.raised]
                        /\ UNCHANGED <<c_labels, c_ids, c_counts>>
                   ELSE /\ c_labels' = [c_labels EXCEPT ![g] = Some(r.labels)]
                        /\ c_ids' = [c_ids EXCEPT ![g] = Some(r.ids)]
                        /\ c_counts' = [c_counts EXCEPT ![g] = Some(r.counts)]
                        /\ result' = [result EXCEPT ![g].raised = NoneVal]
    /\ UNCHANGED <<scenario, grouper, index, obj, func>>

ReadLabels(g) == ReadCached(g, c_labels)

ReadIds(g) == ReadCached(g, c_ids)

ReadCounts(g) == ReadCached(g, c_counts)

\* reverse_ids and group_index are computed from self.ids on their first
\* read: a read of them is a read of ids, and what they keep is a function of
\* ids alone
ReadReverseIds(g) == ReadCached(g, c_ids)

ReadGroupIndex(g) == ReadCached(g, c_ids)

\* for name, group in grouped: the whole iteration, collected
Iterate(g) ==
    /\ scenario = "grouping"
    /\ result' = [result EXCEPT ![g].groups = Some(iter_single(index[g], grouper[g]))]
    /\ UNCHANGED <<scenario, grouper, index, c_labels, c_ids, c_counts,
                   makeCalls, obj, func>>

NextGrouping ==
    \E g \in Orderings :
        \/ ReadLabels(g)
        \/ ReadIds(g)
        \/ ReadCounts(g)
        \/ ReadReverseIds(g)
        \/ ReadGroupIndex(g)
        \/ Iterate(g)

SpecGrouping == InitGrouping /\ [][NextGrouping]_vars

\* C5: the ids a Grouping holds after sort_group_labels have the keys 0..k-1,
\* k the number of distinct non-missing key values of the rows, and
\* ids[0], ..., ids[k-1] is strictly ascending in key value.
C5_IdsDenseAscending ==
    \A g \in Orderings :
        c_ids[g] # None =>
            LET ids == Val(c_ids[g])
                k == Cardinality(Range(grouper[g]) \ {NA})
            IN  /\ DOMAIN ids = 0..(k - 1)
                /\ \A i, j \in DOMAIN ids : i < j => ids[i] < ids[j]

\* the labelling was computed for rows whose keys first occur in descending
\* order, with a missing key among them
C5_Witness ==
    \E g \in Orderings :
        /\ c_ids[g] # None
        /\ ALen(grouper[g]) = 3
        /\ NA \in Range(grouper[g])
        /\ LET first == group_labels(grouper[g]).ids
           IN  ALen(first) = 2 /\ first[0] > first[1]

\* C4: two row orders of the same (row label, key value) pairs give the same
\* ids, the same code for every row label, and an iteration with the same
\* sequence of group keys and the same set of member rows for each key.
C4_RowOrderInvariant ==
    /\ (c_ids[1] # None /\ c_ids[2] # None) =>
            /\ Val(c_ids[1]) = Val(c_ids[2])
            /\ \A i \in DOMAIN index[1], j \in DOMAIN index[2] :
                    index[1][i] = index[2][j] =>
                        Val(c_labels[1])[i] = Val(c_labels[2])[j]
    /\ (result[1].groups # None /\ result[2].groups # None) =>
            LET a == Val(result[1].groups)
                b == Val(result[2].groups)
            IN  /\ Len(a) = Len(b)
                /\ \A j \in DOMAIN a :
                        /\ a[j].name = b[j].name
                        /\ Range(a[j].rows) = Range(b[j].rows)

\* both orders were labelled and iterated, and the keys first occur in a
\* different order in the two row orders
C4_Witness ==
    /\ c_ids[1] # None /\ c_ids[2] # None
    /\ result[1].groups # None /\ result[2].groups # None
    /\ Len(Val(result[1].groups)) = 2
    /\ group_labels(grouper[1]).ids # group_labels(grouper[2]).ids
    /\ group_labels(grouper[1]).labels # group_labels(grouper[2]).labels

-----------------------------------------------------------------------------
(* Several keys: the sorted partition and the recursive group generator *)

RECURSIVE Prod(_)
Prod(shape) ==
    IF Len(shape) = 0 THEN 1 ELSE Head(shape) * Prod(Tail(shape))

RECURSIVE ConcatAll(_)
ConcatAll(ss) ==
    IF Len(ss) = 0 THEN << >> ELSE Head(ss) \o ConcatAll(Tail(ss))

\* the labelling of every grouping: [ping.labels], [ping.ids], [ping.counts]
pings_of(groupers) == [l \in DOMAIN groupers |-> make_labels(groupers[l])]

pings_raised(pings) == \E l \in DOMAIN pings : pings[l].raised # NoneVal

\* GroupBy._group_shape
group_shape(pings) == [l \in DOMAIN pings |-> ALen(pings[l].ids)]

\* the code tuple of row position r
CodesAt(label_list, r) == [l \in DOMAIN label_list |-> label_list[l][r]]

TupleLess(a, b) ==
    \E l \in DOMAIN a :
        /\ a[l] < b[l]
        /\ \A m \in 1..(l - 1) : a[m] = b[m]

\* an indexer that leaves the rows where they are
lexsort_identity(label_list, n) == [j \in 0..(n - 1) |-> j]

\* np.lexsort(label_list[::-1]): the first grouping is the primary sort key,
\* and the sort is stable
lexsort(label_list, n) ==
    LET before(q, r) ==
            \/ TupleLess(CodesAt(label_list, q), CodesAt(label_list, r))
            \/ CodesAt(label_list, q) = CodesAt(label_list, r) /\ q < r
    IN  [j \in 0..(n - 1) |->
            CHOOSE r \in 0..(n - 1) :
                Cardinality({q \in 0..(n - 1) : before(q, r)}) = j]

\* _group_reorder: data is the array of the object's row labels
group_reorder(data, label_list) ==
    LET indexer == lexsort(label_list, ALen(data))
    IN  [data   |-> Take(data, indexer),
         labels |-> [l \in DOMAIN label_list |-> Take(label_list[l], indexer)]]

\* a[lo:hi].searchsorted(v, side='left') on a sorted range: the number of
\* entries below v
searchsorted(a, lo, hi, v) == Cardinality({i \in lo..(hi - 1) : a[i] < v})

\* data[lo:hi] as a 1-based sequence of row labels (empty when hi <= lo)
Slice(data, lo, hi) ==
    [j \in 1..(IF hi > lo THEN hi - lo ELSE 0) |-> data[lo + j - 1]]

\* the first left boundary without "left = axis_labels.searchsorted(0)"
first_left_zero(axis_labels, start, end) == 0

\* left = axis_labels.searchsorted(0): omit the -1 values at the beginning
first_left(axis_labels, start, end) == searchsorted(axis_labels, start, end, 0)

\* _generate_groups yielding only the codes that have rows
RECURSIVE generate_groups_nonempty(_, _, _, _, _, _)
generate_groups_nonempty(data, labels, shape, start, end, which) ==
    LET axis_labels == labels[which + 1]
        edges == [i \in 0..(shape[which + 1] - 1) |->
                    searchsorted(axis_labels, start, end, i + 1)]
        do_slice == (which = Len(labels) - 1)
        left0 == searchsorted(axis_labels, start, end, 0)
        pairs == [j \in 1..shape[which + 1] |->
            LET i == j - 1
                lo == start + (IF i = 0 THEN left0 ELSE edges[i - 1])
                hi == start + edges[i]
            IN  [code |-> i, leaf |-> do_slice, lo |-> lo, hi |-> hi,
                 rows |-> IF do_slice THEN Slice(data, lo, hi) ELSE << >>,
                 sub  |-> IF do_slice THEN << >>
                          ELSE generate_groups_nonempty(data, labels, shape,
                                                        lo, hi, which + 1)]]
    IN  SelectSeq(pairs, LAMBDA e : e.lo < e.hi)

\* _generate_groups: the pairs (i, slice) or (i, subgenerator) of level `which`
\* (0-based) for the rows [start, end); every pair keeps its row range
RECURSIVE generate_groups_rec(_, _, _, _, _, _)
generate_groups_rec(data, labels, shape, start, end, which) ==
    LET axis_labels == labels[which + 1]
        edges == [i \in 0..(shape[which + 1] - 1) |->
                    searchsorted(axis_labels, start, end, i + 1)]
        do_slice == (which = Len(labels) - 1)
        left0 == first_left(axis_labels, start, end)
    IN  [j \in 1..shape[which + 1] |->
            LET i == j - 1
                lo == start + (IF i = 0 THEN left0 ELSE edges[i - 1])
                hi == start + edges[i]
            IN  [code |-> i, leaf |-> do_slice, lo |-> lo, hi |-> hi,
                 rows |-> IF do_slice THEN Slice(data, lo, hi) ELSE << >>,
                 sub  |-> IF do_slice THEN << >>
                          ELSE generate_groups_rec(data, labels, shape,
                                                   lo, hi, which + 1)]]

\* generate_groups(data, label_list, shape): reorder, then generate from level 0
generate_groups(data, label_list, shape) ==
    LET ro == group_reorder(data, label_list)
    IN  generate_groups_rec(ro.data, ro.labels, shape, 0, ALen(label_list[1]), 0)

\* every leaf pair of a generator, in traversal order, with its code tuple
RECURSIVE leaves_of(_, _)
leaves_of(gen, prefix) ==
    ConcatAll([j \in DOMAIN gen |->
        IF gen[j].leaf
        THEN << [codes |-> Append(prefix, gen[j].code), rows |-> gen[j].rows] >>
        ELSE leaves_of(gen[j].sub, Append(prefix, gen[j].code))])

\* flatten without the test of the slice's row count: every pair goes up
RECURSIVE flatten_keep_empty(_, _, _)
flatten_keep_empty(gen, level, pings) ==
    LET ids == pings[level + 1].ids
    IN  ConcatAll([j \in DOMAIN gen |->
            IF gen[j].leaf
            THEN << [key |-> << ids[gen[j].code] >>, rows |-> gen[j].rows] >>
            ELSE LET below == flatten_keep_empty(gen[j].sub, level + 1, pings)
                 IN  [m \in DOMAIN below |->
                        [key  |-> << ids[gen[j].code] >> \o below[m].key,
                         rows |-> below[m].rows]]])

\* flatten of GroupBy._multi_iter: a leaf is yielded as it is, and a pair
\* coming up from a deeper level is dropped when its slice has no row
RECURSIVE flatten(_, _, _)
flatten(gen, level, pings) ==
    LET ids == pings[level + 1].ids
    IN  ConcatAll([j \in DOMAIN gen |->
            IF gen[j].leaf
            THEN << [key |-> << ids[gen[j].code] >>, rows |-> gen[j].rows] >>
            ELSE LET below == flatten(gen[j].sub, level + 1, pings)
                     kept == SelectSeq(below, LAMBDA e : Len(e.rows) # 0)
                 IN  [m \in DOMAIN kept |->
                        [key  |-> << ids[gen[j].code] >> \o kept[m].key,
                         rows |-> kept[m].rows]]])

\* GroupBy._multi_iter
multi_iter(data, pings) ==
    flatten(generate_groups(data, [l \in DOMAIN pings |-> pings[l].labels],
                            group_shape(pings)), 0, pings)

-----------------------------------------------------------------------------
(* N-dimensional arrays in C order: [shape, flat], as _ravel_names uses them *)

\* the stride of dimension d (1-based) of an array of this shape
Stride(shape, d) == Prod(SubSeq(shape, d + 1, Len(shape)))

\* np.unravel_index and np.ravel_multi_index
Unravel(f, shape) ==
    [d \in DOMAIN shape |-> (f \div Stride(shape, d)) % shape[d]]

RECURSIVE RavelFrom(_, _, _)
RavelFrom(idx, shape, d) ==
    IF d > Len(shape) THEN 0
    ELSE idx[d] * Stride(shape, d) + RavelFrom(idx, shape, d + 1)

Ravel(idx, shape) == RavelFrom(idx, shape, 1)

\* np.tile(ax, reps) of a 1-d array ax, len(reps) >= 1: ax is promoted to
\* shape (1, ..., 1, len(ax)) and repeated reps[d] times along dimension d
tile(ax, reps) ==
    LET k == Len(reps)
        m == ALen(ax)
        shape == [d \in 1..k |-> IF d = k THEN m * reps[k] ELSE reps[d]]
    IN  [shape |-> shape,
         flat  |-> [f \in 0..(Prod(shape) - 1) |-> ax[Unravel(f, shape)[k] % m]]]

\* ndarray.swapaxes(a, b), dimensions 1-based here
swapaxes(arr, a, b) ==
    LET sw(t) == [d \in DOMAIN t |->
                    IF d = a THEN t[b] ELSE IF d = b THEN t[a] ELSE t[d]]
        shape == sw(arr.shape)
    IN  [shape |-> shape,
         flat  |-> [f \in 0..(Prod(shape) - 1) |->
                      arr.flat[Ravel(sw(Unravel(f, shape)), arr.shape)]]]

\* shape[:i] + shape[i+1:] + (1,), i 0-based
tile_shape(shape, i) ==
    SubSeq(shape, 1, i) \o SubSeq(shape, i + 2, Len(shape)) \o <<1>>

\* _ravel_names without tiled.swapaxes(i, -1)
ravel_names_noswap(axes, shape) ==
    [l \in DOMAIN axes |-> tile(axes[l], tile_shape(shape, l - 1)).flat]

\* _ravel_names(axes, shape): for every grouping, its key value at every flat
\* group id
ravel_names(axes, shape) ==
    [l \in DOMAIN axes |->
        swapaxes(tile(axes[l], tile_shape(shape, l - 1)), l, Len(shape)).flat]

\* arr[mask]: the entries of a flat array whose mask is true, in order
Masked(arr, mask) ==
    LET keep == SortedSeq({f \in DOMAIN arr : mask[f]})
    IN  [j \in DOMAIN keep |-> arr[keep[j]]]

\* GroupBy._get_multi_index(mask): one key tuple per kept flat group id
get_multi_index(pings, mask) ==
    LET raveled == ravel_names([l \in DOMAIN pings |-> pings[l].ids],
                               group_shape(pings))
        masked == [l \in DOMAIN pings |-> Masked(raveled[l], mask)]
    IN  [j \in 1..Cardinality({f \in DOMAIN mask : mask[f]}) |->
            [l \in DOMAIN pings |-> masked[l][j]]]

\* _doit of _python_agg_general: the cells (flat offset, rows) it writes;
\* reschunk[i] and ctchunk[i] are the i-th sub-blocks, i counting the pairs
RECURSIVE doit(_, _, _, _)
doit(gen, shape, level, base) ==
    ConcatAll([j \in DOMAIN gen |->
        LET i == j - 1
            at == base + i * Stride(shape, level + 1)
        IN  IF gen[j].leaf
            THEN << [flat |-> at, rows |-> gen[j].rows] >>
            ELSE doit(gen[j].sub, shape, level + 1, at)])

\* the mask with counts.ravel() >= 0 instead of > 0
agg_mask_all(counts) == [f \in DOMAIN counts |-> counts[f] >= 0]

\* mask = counts.ravel() > 0
agg_mask(counts) == [f \in DOMAIN counts |-> counts[f] > 0]

\* GroupBy._python_agg_general on a Series, then _wrap_aggregated_output: the
\* reduction arg is kept symbolic, a value being the rows it was applied to,
\* and a cell it was never applied to stays None (nan)
python_agg_general(data, pings) ==
    LET shape == group_shape(pings)
        gen == generate_groups(data, [l \in DOMAIN pings |-> pings[l].labels],
                               shape)
        cells == doit(gen, shape, 0, 0)
        cell(f) == CHOOSE c \in Range(cells) : c.flat = f
        size == Prod(shape)
        counts == [f \in 0..(size - 1) |-> Len(cell(f).rows)]
        output == [f \in 0..(size - 1) |->
                     IF Len(cell(f).rows) = 0 THEN None ELSE Some(cell(f).rows)]
        mask == agg_mask(counts)
    IN  [index  |-> get_multi_index(pings, mask),
         values |-> Masked(output, mask)]

-----------------------------------------------------------------------------
(* A Series grouped by one, two or three keys: generator, iteration, aggregate *)

LevelCounts == {1, 2, 3}

\* with three keys the model has one row less; a single key takes the values
\* NA, 1..NumKeys; of several keys the first and the second take NA, 1, 2 and
\* the third NA, 1
RowsFor(L) == IF L = 3 THEN MaxRows - 1 ELSE MaxRows

KeysFor(l) == IF l = 1 THEN KeyValues ELSE IF l = 2 THEN 0..2 ELSE 0..1

\* the key arrays of L groupings over n rows
Groupers(L, n) ==
    {[l \in 1..L |-> IF l = 1 THEN g1 ELSE IF l = 2 THEN g2 ELSE g3] :
        g1 \in Arrays(IF L = 1 THEN KeysFor(1) ELSE KeysFor(2), n),
        g2 \in Arrays(KeysFor(2), IF L >= 2 THEN n ELSE 0),
        g3 \in Arrays(KeysFor(3), IF L >= 3 THEN n ELSE 0)}

\* the values of the Series: row r holds r + 1
SeriesValue(r) == r + 1

RECURSIVE SumValues(_)
SumValues(rows) ==
    IF Len(rows) = 0 THEN 0 ELSE SeriesValue(Head(rows)) + SumValues(Tail(rows))

RowLabels(n) == [i \in 0..(n - 1) |-> i]

NLevels == Len(grouper)

\* SeriesGroupBy._aggregate_simple: arg(values.take(v)) for every (k, v) of
\* primary.indices; the variant below takes the rows of all groups up to k
aggregate_simple_upto(values) ==
    LET ind == groupby_indices(values)
    IN  [k \in DOMAIN ind |->
            SortedSeq({r \in DOMAIN values : values[r] # NA /\ values[r] <= k})]

aggregate_simple(values) ==
    LET ind == groupby_indices(values)
    IN  [k \in DOMAIN ind |-> ind[k]]

\* SeriesGroupBy._aggregate_named: arg(get_group(name)) for every name
aggregate_named(idx, values) ==
    [name \in DOMAIN groupby_indices(values) |-> groupby(idx, values)[name]]

\* Series(result) of a dict: the keys in sorted order
series_of_dict(d) ==
    LET ks == SortedSeq(DOMAIN d)
    IN  [index  |-> [j \in DOMAIN ks |-> << ks[j] >>],
         values |-> [j \in DOMAIN ks |-> Some(d[ks[j]])]]

\* SeriesGroupBy.aggregate(func) for a function: _python_agg_general with
\* several groupings, else _aggregate_simple, or _aggregate_named when func
\* raises on a bare ndarray
series_aggregate(idx, groupers, raises_on_ndarray) ==
    IF Len(groupers) > 1
    THEN LET pings == pings_of(groupers)
         IN  IF pings_raised(pings)
             THEN [raised |-> "IndexError"]
             ELSE [raised |-> NoneVal] @@ python_agg_general(idx, pings)
    ELSE [raised |-> NoneVal] @@
         series_of_dict(IF raises_on_ndarray
                        THEN aggregate_named(idx, groupers[1])
                        ELSE aggregate_simple(groupers[1]))

\* GroupBy.__iter__: (name, group) for one grouping, _multi_iter for several
groupby_iter(idx, groupers) ==
    IF Len(groupers) = 1
    THEN LET it == iter_single(idx, groupers[1])
         IN  [raised |-> NoneVal,
              out |-> [j \in DOMAIN it |->
                          [key |-> << it[j].name >>, rows |-> it[j].rows]]]
    ELSE LET pings == pings_of(groupers)
         IN  IF pings_raised(pings)
             THEN [raised |-> "IndexError", out |-> << >>]
             ELSE [raised |-> NoneVal, out |-> multi_iter(idx, pings)]

InitGroupBy ==
    /\ scenario = "groupby"
    /\ \E L \in LevelCounts :
         \E n \in 0..RowsFor(L) :
            /\ grouper \in Groupers(L, n)
            /\ index = RowLabels(n)
            /\ obj = [kind |-> "Series", nrows |-> n]
    /\ c_labels = None
    /\ c_ids = None
    /\ c_counts = None
    /\ makeCalls = 0
    /\ func = NoneVal
    /\ result = [op |-> "none", raised |-> NoneVal]

\* list(self._generator_factory(obj)), every level unfolded; the factory may be
\* called again, and the result keeps what its first call gave
Generate ==
    /\ scenario = "groupby"
    /\ result.op \in {"none", "generate"}
    /\ result.op = "generate" => result.raised = NoneVal /\ result.calls < MaxCalls
    /\ LET pings == pings_of(grouper)
       IN  result' =
            IF pings_raised(pings)
            THEN [op |-> "generate", raised |-> "IndexError"]
            ELSE LET label_list == [l \in DOMAIN pings |-> pings[l].labels]
                     gen == generate_groups(index, label_list, group_shape(pings))
                     out == leaves_of(gen, << >>)
                 IN  [op |-> "generate", raised |-> NoneVal,
                      calls |-> IF result.op = "none" THEN 1 ELSE result.calls + 1,
                      first |-> IF result.op = "none" THEN out ELSE result.first,
                      sorted_labels |-> group_reorder(index, label_list).labels,
                      tree |-> gen, out |-> out]
    /\ UNCHANGED <<scenario, grouper, index, c_labels, c_ids, c_counts,
                   makeCalls, obj, func>>

\* list(grouped)
IterateGroups ==
    /\ scenario = "groupby"
    /\ result.op = "none"
    /\ LET it == groupby_iter(index, grouper)
       IN  result' = IF it.raised # NoneVal
                     THEN [op |-> "iterate", raised |-> it.raised]
                     ELSE [op |-> "iterate", raised |-> NoneVal, out |-> it.out]
    /\ UNCHANGED <<scenario, grouper, index, c_labels, c_ids, c_counts,
                   makeCalls, obj, func>>

\* grouped.aggregate(func)
Aggregate ==
    /\ scenario = "groupby"
    /\ result.op = "none"
    /\ \E raises_on_ndarray \in BOOLEAN :
         result' = [op |-> "aggregate"] @@
                   series_aggregate(index, grouper, raises_on_ndarray)
    /\ UNCHANGED <<scenario, grouper, index, c_labels, c_ids, c_counts,
                   makeCalls, obj, func>>

NextGroupBy == Generate \/ IterateGroups \/ Aggregate

SpecGroupBy == InitGroupBy /\ [][NextGroupBy]_vars

\* the key tuple of row r, and whether some key of it is missing
KeyTupleAt(r) == [l \in 1..NLevels |-> grouper[l][r]]

HasMissingKey(r) == \E l \in 1..NLevels : grouper[l][r] = NA

AllRows == DOMAIN index

RowsOfKey(key) == {r \in AllRows : KeyTupleAt(r) = key}

OccupiedKeys == {KeyTupleAt(r) : r \in {q \in AllRows : ~HasMissingKey(q)}}

\* how often row label r occurs in the slices of a list of groups
Occurrences(groups, r) ==
    Cardinality({jm \in (DOMAIN groups) \X (0..MaxRows + 1) :
                    /\ jm[2] \in DOMAIN groups[jm[1]].rows
                    /\ groups[jm[1]].rows[jm[2]] = r})

\* C1: aggregate(f) has, for every key (key tuple) with at least one row, one
\* entry, whose value is f applied to exactly the rows carrying that key.
C1_AggregateExactRows ==
    (result.op = "aggregate" /\ result.raised = NoneVal) =>
        /\ Len(result.index) = Cardinality(OccupiedKeys)
        /\ Range(result.index) = OccupiedKeys
        /\ \A j \in DOMAIN result.index :
                /\ result.values[j] # None
                /\ Range(Val(result.values[j])) = RowsOfKey(result.index[j])
                /\ Len(Val(result.values[j])) =
                        Cardinality(RowsOfKey(result.index[j]))

\* rows [("a",1),("b",2),("a",3)] grouped by the first element: sum gives
\* {"a": 4, "b": 2} (a = 1, b = 2)
C1_Witness ==
    /\ result.op = "aggregate" /\ result.raised = NoneVal
    /\ NLevels = 1
    /\ grouper[1] = ToArr(<<1, 2, 1>>)
    /\ result.index = << <<1>>, <<2>> >>
    /\ SumValues(Val(result.values[1])) = 4
    /\ SumValues(Val(result.values[2])) = 2

\* the flat group id of a key tuple: its codes, raveled with the group shape
FlatIdOfKey(key, pings) ==
    LET codes == [l \in 1..NLevels |->
                    CHOOSE c \in DOMAIN pings[l].ids : pings[l].ids[c] = key[l]]
    IN  Ravel(codes, group_shape(pings))

\* C2: a multi-key aggregate has exactly one entry per occupied cell of the
\* group space, in ascending flat-group-id order, each labelled with the key
\* tuple of its own cell; a cell with no row appears nowhere in the output.
C2_OccupiedCellsOnly ==
    (result.op = "aggregate" /\ result.raised = NoneVal /\ NLevels > 1) =>
        /\ Len(result.index) = Cardinality(OccupiedKeys)
        /\ Len(result.values) = Len(result.index)
        /\ \A j \in DOMAIN result.index :
                /\ result.index[j] \in OccupiedKeys
                /\ result.values[j] # None
                /\ Range(Val(result.values[j])) = RowsOfKey(result.index[j])
        /\ LET pings == pings_of(grouper)
               flat == [j \in DOMAIN result.index |->
                            FlatIdOfKey(result.index[j], pings)]
           IN  \A j, m \in DOMAIN flat : j < m => flat[j] < flat[m]

\* keys [("x","p"), ("x","q"), ("y","p")]: shape (2,2), three entries, and
\* no entry for ("y","q")  (x = 1, y = 2; p = 1, q = 2)
C2_Witness ==
    /\ result.op = "aggregate" /\ result.raised = NoneVal
    /\ NLevels = 2
    /\ grouper[1] = ToArr(<<1, 1, 2>>)
    /\ grouper[2] = ToArr(<<1, 2, 1>>)
    /\ group_shape(pings_of(grouper)) = <<2, 2>>
    /\ result.index = << <<1, 1>>, <<1, 2>>, <<2, 1>> >>
    /\ <<2, 2>> \notin Range(result.index)

\* C3: in the slices of the group generator and of multi-key iteration, a row
\* with a missing key at any level occurs in no slice, every other row occurs
\* in exactly one slice, that of its own code tuple, and no group stands for
\* the missing value.
C3_MissingRowsExcluded ==
    /\ (result.op = "generate" /\ result.raised = NoneVal) =>
            LET pings == pings_of(grouper)
                codesAt(r) == [l \in 1..NLevels |-> pings[l].labels[r]]
            IN  /\ \A r \in AllRows :
                        Occurrences(result.out, r) =
                            IF HasMissingKey(r) THEN 0 ELSE 1
                /\ \A j \in DOMAIN result.out :
                        /\ \A l \in 1..NLevels : result.out[j].codes[l] >= 0
                        /\ \A r \in Range(result.out[j].rows) :
                                codesAt(r) = result.out[j].codes
    /\ (result.op = "iterate" /\ result.raised = NoneVal /\ NLevels > 1) =>
            /\ \A r \in AllRows :
                    Occurrences(result.out, r) = IF HasMissingKey(r) THEN 0 ELSE 1
            /\ \A j \in DOMAIN result.out :
                    /\ \A l \in 1..NLevels : result.out[j].key[l] # NA
                    /\ \A r \in Range(result.out[j].rows) :
                            KeyTupleAt(r) = result.out[j].key

\* multi-key iteration over rows of which one misses its first key, one its
\* second key, and one has both
C3_Witness ==
    /\ result.op = "iterate" /\ result.raised = NoneVal
    /\ NLevels = 2
    /\ \E r1, r2, r3 \in AllRows :
            /\ grouper[1][r1] = NA /\ grouper[2][r1] # NA
            /\ grouper[1][r2] # NA /\ grouper[2][r2] = NA
            /\ ~HasMissingKey(r3)
            /\ r1 > r3
    /\ Len(result.out) = 1

-----------------------------------------------------------------------------
(* The user function of apply and transform.                                  *)
(* A behaviour [base, odd, at, whole_ok] returns, for the group at position   *)
(* `at` of the iteration, what `odd` says, and for every other group what     *)
(* `base` says:                                                               *)
(*   identity  the group itself                                               *)
(*   shift     an object like the group, same index, every value + 100        *)
(*   scalar    one scalar                                                     *)
(*   short     like shift, without the last row (groups of 2 rows or more)    *)
(*   long      like shift, with one more row, labelled 50                     *)
(*   relabel   like shift, every label moved by 100                           *)
(*   stats     a DataFrame with the index (60, 61), whatever the group        *)
(*   row       a Series with the index (60, 61), whatever the group           *)
(*   raise     raises on a Series, and on a DataFrame unless whole_ok, in     *)
(*             which case it returns what shift returns                       *)

NumCols == 2

NaN == -1

BaseKinds == {"identity", "scalar", "stats", "row"}

OddKinds == {"shift", "scalar", "short", "long", "relabel", "raise"}

Funcs ==
    {[base |-> b, odd |-> "none", at |-> 1, whole_ok |-> TRUE] : b \in BaseKinds}
    \cup {[base |-> b, odd |-> o, at |-> a, whole_ok |-> TRUE] :
            b \in BaseKinds, o \in OddKinds, a \in 1..2}
    \cup {[base |-> b, odd |-> "raise", at |-> a, whole_ok |-> FALSE] :
            b \in BaseKinds, a \in 1..2}

\* the cell of the object at row label r, column c (a Series has column 1)
CellValue(r, c) == 10 * (c - 1) + r + 1

Columns(kind) == IF kind = "Series" THEN {1} ELSE 1..NumCols

func_desc(f, j) == IF f.odd # "none" /\ j = f.at THEN f.odd ELSE f.base

\* does the function raise on the j-th group, given as input_type
func_raises(f, j, input_type) ==
    func_desc(f, j) = "raise" /\ (input_type = "Series" \/ ~f.whole_ok)

\* the type of what the function returns on the j-th group of a kind of object
out_type(f, j, kind) ==
    LET d == func_desc(f, j)
    IN  CASE d = "scalar" -> "scalar"
          [] d = "stats"  -> "DataFrame"
          [] d = "row"    -> "Series"
          [] OTHER        -> kind

\* the index of what it returns on a group with these row labels
out_index(f, j, rows) ==
    LET d == func_desc(f, j)
    IN  CASE d = "scalar"            -> << >>
          [] d \in {"stats", "row"}  -> <<60, 61>>
          [] d = "short"             -> IF Len(rows) >= 2
                                        THEN SubSeq(rows, 1, Len(rows) - 1)
                                        ELSE rows
          [] d = "long"              -> Append(rows, 50)
          [] d = "relabel"           -> [m \in DOMAIN rows |-> rows[m] + 100]
          [] OTHER                   -> rows

\* the values it returns, one per row of its index (one in all for a scalar),
\* in column c
out_values(f, j, rows, c) ==
    LET d == func_desc(f, j)
        ix == out_index(f, j, rows)
    IN  CASE d = "scalar"            -> << 500 + c >>
          [] d = "identity"          -> [m \in DOMAIN rows |-> CellValue(rows[m], c)]
          [] d \in {"stats", "row"}  -> [m \in DOMAIN ix |-> 700 + 10 * m + c]
          [] OTHER                   ->
                [m \in DOMAIN ix |->
                    IF m <= Len(rows) THEN CellValue(rows[m], c) + 100
                    ELSE 900 + c]

\* the original values of the object
Original(kind, n) ==
    [r \in 0..(n - 1) |-> [c \in Columns(kind) |-> CellValue(r, c)]]

\* np.put(result, indexer, res) on column 1: res is flattened, repeated when
\* shorter than indexer and cut when longer
np_put(values, indexer, res) ==
    [raised |-> NoneVal,
     values |-> [r \in DOMAIN values |->
        IF \E m \in DOMAIN indexer : indexer[m] = r
        THEN LET m == CHOOSE k \in DOMAIN indexer : indexer[k] = r
             IN  [c \in {1} |-> res[((m - 1) % Len(res)) + 1]]
        ELSE values[r]]]

\* the call of the function on group j in a form: on the group of a Series
\* or DataFrame ("group"), on every column of a frame ("column"), on the
\* whole frame after that ("frame")
Call(j, form) == [grp |-> j, form |-> form]

\* the exception the function raises in a call, and an exception of the
\* library raised inside the operation
UserExc(call) == [type |-> "UserError", grp |-> call.grp, form |-> call.form]

LibExc(name) == [type |-> name, grp |-> 0, form |-> "lib"]

\* SeriesGroupBy.transform from group j on: acc = [raised, calls, values]
RECURSIVE series_transform_from(_, _, _, _)
series_transform_from(groups, f, j, acc) ==
    IF j > Len(groups) THEN acc
    ELSE LET calls == Append(acc.calls, Call(j, "group"))
             rows == groups[j].rows
         IN  IF func_raises(f, j, "Series")
             THEN [raised |-> Some(UserExc(Call(j, "group"))), calls |-> calls,
                   values |-> None]
             ELSE LET put == np_put(Val(acc.values), rows,
                                    out_values(f, j, rows, 1))
                  IN  IF put.raised # NoneVal
                      THEN [raised |-> Some(LibExc(put.raised)), calls |-> calls,
                            values |-> None]
                      ELSE series_transform_from(groups, f, j + 1,
                              [raised |-> None, calls |-> calls,
                               values |-> Some(put.values)])

\* SeriesGroupBy.transform: result = self.obj.copy(), then one put per group
series_transform(idx, groupers, f) ==
    LET it == groupby_iter(idx, groupers)
    IN  IF it.raised # NoneVal
        THEN [raised |-> Some(LibExc(it.raised)), calls |-> << >>,
              values |-> None]
        ELSE series_transform_from(it.out, f, 1,
                [raised |-> None, calls |-> << >>,
                 values |-> Some(Original("Series", ALen(idx)))])

\* what the function returns on group j as a frame: index and value rows
frame_of(f, j, rows) ==
    LET ix == out_index(f, j, rows)
    IN  [index |-> ix,
         vals  |-> [m \in DOMAIN ix |->
                      [c \in 1..NumCols |-> out_values(f, j, rows, c)[m]]]]

\* group.values[:] = res for a Series res over the columns: every row of the
\* group gets the one value of its column
broadcast_frame(f, j, rows) ==
    [index |-> rows,
     vals  |-> [m \in DOMAIN rows |->
                  [c \in 1..NumCols |-> out_values(f, j, rows, c)[1]]]]

HasDuplicates(s) == \E a, b \in DOMAIN s : a # b /\ s[a] = s[b]

\* _concat_frames(frames, index, columns), axis 0: the frames one after the
\* other, then reindex(index=index): a label the concatenation lacks gives a
\* row of NaN, a label only the concatenation has is dropped, and an index
\* with a label twice cannot be reindexed
concat_frames(frames, n) ==
    IF Len(frames) = 0 THEN [raised |-> Some(LibExc("ValueError")), values |-> None]
    ELSE LET new_index == ConcatAll([j \in DOMAIN frames |-> frames[j].index])
             new_values == ConcatAll([j \in DOMAIN frames |-> frames[j].vals])
         IN  IF HasDuplicates(new_index)
             THEN [raised |-> Some(LibExc("Exception")), values |-> None]
             ELSE [raised |-> None,
                   values |-> Some([r \in 0..(n - 1) |->
                      IF \E m \in DOMAIN new_index : new_index[m] = r
                      THEN new_values[CHOOSE m \in DOMAIN new_index :
                                                new_index[m] = r]
                      ELSE [c \in 1..NumCols |-> NaN]])]

\* DataFrameGroupBy.transform from group j on: acc = [raised, calls, applied]
RECURSIVE frame_transform_from(_, _, _, _)
frame_transform_from(groups, f, j, acc) ==
    IF j > Len(groups) THEN acc
    ELSE LET rows == groups[j].rows
             by_column == Append(acc.calls, Call(j, "column"))
             on_frame == Append(by_column, Call(j, "frame"))
         IN  IF func_raises(f, j, "Series")
             THEN \* except Exception: res = func(group)
                  IF func_raises(f, j, "DataFrame")
                  THEN [raised |-> Some(UserExc(Call(j, "frame"))),
                        calls |-> on_frame, applied |-> << >>]
                  ELSE frame_transform_from(groups, f, j + 1,
                          [raised |-> None, calls |-> on_frame,
                           applied |-> Append(acc.applied, frame_of(f, j, rows))])
             ELSE frame_transform_from(groups, f, j + 1,
                     [raised |-> None, calls |-> by_column,
                      applied |-> Append(acc.applied,
                          IF out_type(f, j, "Series") = "scalar"
                          THEN broadcast_frame(f, j, rows)
                          ELSE frame_of(f, j, rows))])

\* DataFrameGroupBy.transform
frame_transform(idx, groupers, f) ==
    LET it == groupby_iter(idx, groupers)
    IN  IF it.raised # NoneVal
        THEN [raised |-> Some(LibExc(it.raised)), calls |-> << >>,
              values |-> None]
        ELSE LET run == frame_transform_from(it.out, f, 1,
                            [raised |-> None, calls |-> << >>,
                             applied |-> << >>])
             IN  IF run.raised # None
                 THEN [raised |-> run.raised, calls |-> run.calls,
                       values |-> None]
                 ELSE [calls |-> run.calls] @@
                      concat_frames(run.applied, ALen(idx))

-----------------------------------------------------------------------------
(* apply *)

\* _is_indexed_like(res, group), res = [type, index]
is_indexed_like(res, kind, rows) ==
    CASE res.type = "Series"    -> kind = "Series" /\ res.index = rows
      [] res.type = "DataFrame" -> res.index = rows
      [] OTHER                  -> FALSE

\* _all_indexes_same
all_indexes_same(indexes) ==
    \A j \in DOMAIN indexes : indexes[1] = indexes[j]

\* _make_concat_multiindex(indexes, keys, groupings): the tuples of the
\* MultiIndex it builds.  A key is a tuple of key values; with one grouping
\* the keys the iteration gives are scalars, and zip(*keys) raises TypeError
make_concat_multiindex(indexes, keys, pings) ==
    LET L == Len(pings)
    IN  IF ~all_indexes_same(indexes)
        THEN LET label_list == [l \in 1..L |->
                    ConcatAll([j \in DOMAIN indexes |->
                        [m \in DOMAIN indexes[j] |-> keys[j][l]]])]
                 last == ConcatAll(indexes)
             IN  [raised |-> None,
                  index  |-> [t \in DOMAIN last |->
                                [l \in 1..L |-> label_list[l][t]] \o << last[t] >>]]
        ELSE IF L = 1
        THEN [raised |-> Some(LibExc("TypeError")), index |-> << >>]
        ELSE LET new_index == indexes[1]
                 n == Len(new_index)
                 levels == [l \in 1..L |-> pings[l].ids]
                 reverse_ids(l, x) ==
                    CHOOSE c \in DOMAIN pings[l].ids : pings[l].ids[c] = x
                 \* np.repeat(mapped, n) and np.tile(np.arange(n), len(indexes))
                 labels == [l \in 1..L |->
                    [t \in 1..(n * Len(indexes)) |->
                        reverse_ids(l, keys[((t - 1) \div n) + 1][l])]]
                 inner == [t \in 1..(n * Len(indexes)) |-> (t - 1) % n]
             IN  [raised |-> None,
                  index  |-> [t \in 1..(n * Len(indexes)) |->
                                [l \in 1..L |-> levels[l][labels[l][t]]]
                                \o << new_index[inner[t] + 1] >>]]

\* GroupBy._wrap_frames without the hierarchical branch: always concatenating
wrap_frames_concat(keys, values, not_indexed_same, pings, n) ==
    [path |-> "concat", raised |-> None, index |-> [r \in 1..n |-> << r - 1 >>]]

\* GroupBy._wrap_frames: where the reassembly goes, and the index it builds
wrap_frames(keys, values, not_indexed_same, pings, n) ==
    IF not_indexed_same
    THEN IF \E j \in DOMAIN values : values[j].type = "scalar"
         THEN \* x.index of a scalar
              [path |-> "hier", raised |-> Some(LibExc("AttributeError")),
               index |-> << >>]
         ELSE LET mi == make_concat_multiindex(
                            [j \in DOMAIN values |-> values[j].index], keys, pings)
              IN  IF mi.raised = None
                     /\ \E j \in DOMAIN values : values[j].type # "DataFrame"
                  THEN \* np.concatenate of 1-d and 2-d values
                       [path |-> "hier", raised |-> Some(LibExc("ValueError")),
                        index |-> << >>]
                  ELSE [path |-> "hier"] @@ mi
    ELSE [path |-> "concat", raised |-> None,
          index |-> [r \in 1..n |-> << r - 1 >>]]

\* SeriesGroupBy._wrap_applied_output and DataFrameGroupBy._wrap_applied_output
wrap_applied_output(kind, keys, values, not_indexed_same, pings, n) ==
    IF Len(keys) = 0
    THEN [path |-> "empty", raised |-> None, index |-> << >>]
    ELSE IF values[1].type = "DataFrame"
    THEN wrap_frames(keys, values, not_indexed_same, pings, n)
    ELSE IF kind = "Series" /\ values[1].type = "Series"
    THEN IF not_indexed_same
         THEN [path |-> "transposed", raised |-> None, index |-> keys]
         ELSE [path |-> "concat", raised |-> None,
               index |-> ConcatAll([j \in DOMAIN values |->
                            [m \in DOMAIN values[j].index |->
                                << values[j].index[m] >>]])]
    ELSE IF kind = "Series"
    THEN [path |-> "keyed", raised |-> None, index |-> keys]
    ELSE IF values[1].type = "scalar"
    THEN [path |-> "stacked", raised |-> Some(LibExc("AttributeError")),
          index |-> << >>]
    ELSE [path |-> "stacked", raised |-> None, index |-> keys]

\* the loop of _python_apply_general with a handler around the call: it
\* goes on with the next group after an exception of the function
RECURSIVE apply_from_skipping(_, _, _, _, _)
apply_from_skipping(groups, kind, f, j, acc) ==
    IF j > Len(groups) THEN acc
    ELSE LET calls == Append(acc.calls, Call(j, "group"))
             rows == groups[j].rows
             res == [type |-> out_type(f, j, kind),
                     index |-> out_index(f, j, rows)]
         IN  IF func_raises(f, j, kind)
             THEN apply_from_skipping(groups, kind, f, j + 1,
                    [acc EXCEPT !.calls = calls])
             ELSE apply_from_skipping(groups, kind, f, j + 1,
                    [raised |-> None, calls |-> calls,
                     values |-> Append(acc.values, res),
                     not_indexed_same |->
                        acc.not_indexed_same \/ ~is_indexed_like(res, kind, rows)])

\* the loop of _python_apply_general from group j on:
\* acc = [raised, calls, values, not_indexed_same]
RECURSIVE apply_from(_, _, _, _, _)
apply_from(groups, kind, f, j, acc) ==
    IF j > Len(groups) THEN acc
    ELSE LET calls == Append(acc.calls, Call(j, "group"))
             rows == groups[j].rows
             res == [type |-> out_type(f, j, kind),
                     index |-> out_index(f, j, rows)]
         IN  IF func_raises(f, j, kind)
             THEN [acc EXCEPT !.raised = Some(UserExc(Call(j, "group"))),
                              !.calls = calls]
             ELSE apply_from(groups, kind, f, j + 1,
                    [raised |-> None, calls |-> calls,
                     values |-> Append(acc.values, res),
                     not_indexed_same |->
                        acc.not_indexed_same \/ ~is_indexed_like(res, kind, rows)])

\* GroupBy._python_apply_general
python_apply_general(kind, idx, groupers, f) ==
    LET it == groupby_iter(idx, groupers)
        none == [raised |-> None, calls |-> << >>, path |-> "none",
                 not_indexed_same |-> FALSE, keys |-> << >>, types |-> << >>,
                 index |-> << >>]
    IN  IF it.raised # NoneVal
        THEN [none EXCEPT !.raised = Some(LibExc(it.raised))]
        ELSE LET run == apply_from(it.out, kind, f, 1,
                            [raised |-> None, calls |-> << >>, values |-> << >>,
                             not_indexed_same |-> FALSE])
                 keys == [j \in DOMAIN run.values |-> it.out[j].key]
             IN  IF run.raised # None
                 THEN [none EXCEPT !.raised = run.raised, !.calls = run.calls]
                 ELSE [calls |-> run.calls,
                       not_indexed_same |-> run.not_indexed_same,
                       keys |-> keys,
                       types |-> [j \in DOMAIN run.values |-> run.values[j].type]]
                      @@ wrap_applied_output(kind, keys, run.values,
                            run.not_indexed_same,
                            IF Len(groupers) > 1 THEN pings_of(groupers)
                            ELSE << [ids |-> << >>] >>,
                            ALen(idx))

-----------------------------------------------------------------------------
(* A Series or DataFrame grouped by one or two keys, and a function of the   *)
(* caller given to apply or to transform                                      *)

ObjKinds == {"Series", "DataFrame"}

\* the key arrays: one key over up to MaxRows rows, or two keys over one row
\* less, the first NA, 1, 2 and the second NA, 1
UserGroupers(L, n) ==
    IF L = 1 THEN {<< g1 >> : g1 \in Arrays(KeyValues, n)}
    ELSE {<< g1, g2 >> : g1 \in Arrays(KeysFor(2), n), g2 \in Arrays(KeysFor(3), n)}

\* the functions given to transform: they return the group, changed or not,
\* or one value
TransformFuncs == {f \in Funcs : f.base \in {"identity", "scalar"}}

InitUserFunc ==
    /\ scenario = "userfunc"
    /\ \E L \in 1..2 :
         \E n \in 0..(IF L = 1 THEN MaxRows ELSE MaxRows - 1) :
            /\ grouper \in UserGroupers(L, n)
            /\ index = RowLabels(n)
            /\ \E k \in ObjKinds : obj = [kind |-> k, nrows |-> n]
    /\ c_labels = None
    /\ c_ids = None
    /\ c_counts = None
    /\ makeCalls = 0
    /\ func \in Funcs
    /\ result = [op |-> "none", raised |-> None]

\* grouped.apply(func)
Apply ==
    /\ scenario = "userfunc"
    /\ result.op = "none"
    /\ result' = [op |-> "apply"] @@
                  python_apply_general(obj.kind, index, grouper, func)
    /\ UNCHANGED <<scenario, grouper, index, c_labels, c_ids, c_counts,
                   makeCalls, obj, func>>

\* grouped.transform(func)
Transform ==
    /\ scenario = "userfunc"
    /\ result.op = "none"
    /\ func \in TransformFuncs
    /\ result' = [op |-> "transform"] @@
                  (IF obj.kind = "Series"
                   THEN series_transform(index, grouper, func)
                   ELSE frame_transform(index, grouper, func))
    /\ UNCHANGED <<scenario, grouper, index, c_labels, c_ids, c_counts,
                   makeCalls, obj, func>>

NextUserFunc == Apply \/ Transform

SpecUserFunc == InitUserFunc /\ [][NextUserFunc]_vars

\* the iteration the operation makes, [raised, out]
UserIter == groupby_iter(index, grouper)

IdentityFunc == [base |-> "identity", odd |-> "none", at |-> 1, whole_ok |-> TRUE]

\* C6: transform with the identity function returns the original data, the
\* same value at every row in the same row order (stated for the transforms
\* that return)
C6_IdentityTransform ==
    (/\ scenario = "userfunc"
     /\ result.op = "transform"
     /\ func = IdentityFunc
     /\ result.raised = None)
    => result.values = Some(Original(obj.kind, obj.nrows))

\* the output of the function on a group is not aligned with the group: it
\* is not the one broadcast value, and its index is not the group's index
Misaligned(j, rows) ==
    /\ func_desc(func, j) # "scalar"
    /\ out_index(func, j, rows) # rows

\* C7: a transform in which the function's output for some group is not
\* aligned with the group's index ends in an error raised to the caller
C7_MisalignedOutputRaises ==
    LET it == UserIter
    IN  (/\ scenario = "userfunc"
         /\ result.op = "transform"
         /\ it.raised = NoneVal
         /\ \E j \in DOMAIN it.out : Misaligned(j, it.out[j].rows))
        => result.raised # None

\* what the function returns on group j: its type, and whether it is a
\* Series or DataFrame carrying exactly the index of its group
ResultType(j) == out_type(func, j, obj.kind)

IndexedLikeGroup(j, rows) ==
    /\ ResultType(j) \in {"Series", "DataFrame"}
    /\ ~(ResultType(j) = "Series" /\ obj.kind = "DataFrame")
    /\ out_index(func, j, rows) = rows

SomeNotIndexedLike(groups) ==
    \E j \in DOMAIN groups : ~IndexedLikeGroup(j, groups[j].rows)

\* an apply that went through every group: the function raises in no call
ApplyRan(it) ==
    /\ scenario = "userfunc"
    /\ result.op = "apply"
    /\ it.raised = NoneVal
    /\ \A j \in DOMAIN it.out : ~func_raises(func, j, obj.kind)

\* the group keys above each result's own index, group after group
StackedIndex(groups) ==
    ConcatAll([j \in DOMAIN groups |->
        LET ix == out_index(func, j, groups[j].rows)
        IN  [m \in DOMAIN ix |-> groups[j].key \o << ix[m] >>]])

GroupKeys(groups) == [j \in DOMAIN groups |-> groups[j].key]

ReInvokes == result.op = "transform" /\ obj.kind = "DataFrame"

FirstCallRaises(j) ==
    func_raises(func, j, IF ReInvokes THEN "Series" ELSE obj.kind)

Aborts(j) ==
    /\ FirstCallRaises(j)
    /\ ReInvokes => func_raises(func, j, "DataFrame")

CallsOf(j) ==
    IF ~ReInvokes THEN << Call(j, "group") >>
    ELSE IF FirstCallRaises(j) THEN << Call(j, "column"), Call(j, "frame") >>
    ELSE << Call(j, "column") >>

CallsUpTo(j0) == ConcatAll([j \in 1..j0 |-> CallsOf(j)])

UserFuncRan(it) ==
    /\ scenario = "userfunc"
    /\ result.op \in {"apply", "transform"}
    /\ it.raised = NoneVal

-----------------------------------------------------------------------------
(* A DataFrame grouped along axis 0 by one or two keys, and its aggregates:   *)
(* mean(), sum() and aggregate(func).  A column is numeric ("num"), or holds  *)
(* strings ("str": np.asarray(obj, dtype=float) raises ValueError) or other   *)
(* objects ("obj": it raises TypeError).  The reduction (func for aggregate,  *)
(* np.sum for the fallback of sum) cannot be applied to a column that is not  *)
(* numeric: func.frame_exc is what it raises on a group holding such a        *)
(* column, func.col_exc what it raises on the values of such a column         *)

ColKinds == {"num", "str", "obj"}

ExcTypes == {"TypeError", "ValueError", "KeyError"}

Aggers == [frame_exc : ExcTypes, col_exc : ExcTypes]

ColumnSets == UNION {[1..k -> ColKinds] : k \in 1..NumCols}

\* the columns kept, in the order of the frame
ColsWhere(cols, keep(_)) == SelectSeq([c \in DOMAIN cols |-> c], keep)

Returned(cols, via) == [raised |-> None, columns |-> cols, via |-> via]

Raised(type, via) == [raised |-> Some(type), columns |-> << >>, via |-> via]

\* GroupBy._cython_agg_general: a column that raises ValueError in
\* np.asarray(obj, dtype=float) is skipped, any other exception leaves the
\* loop; mask is bound by the first column that is aggregated
cython_agg_general(cols, n, groupers) ==
    LET fails(c) == n > 0 /\ cols[c] # "num"
        first_obj == {c \in DOMAIN cols : n > 0 /\ cols[c] = "obj"}
        kept == ColsWhere(cols, LAMBDA c : ~fails(c))
    IN  IF pings_raised(pings_of(groupers))
        THEN Raised("IndexError", << "cython" >>)
        ELSE IF first_obj # {} THEN Raised("TypeError", << "cython" >>)
        ELSE IF Len(kept) = 0 THEN Raised("UnboundLocalError", << "cython" >>)
        ELSE Returned(kept, << "cython" >>)

\* GroupBy._python_agg_general on a DataFrame: the function on every group as
\* a frame; on TypeError, the function on every group of every column, with
\* no handler around it
frame_python_agg_general(cols, idx, groupers, agger, via) ==
    LET it == groupby_iter(idx, groupers)
        bad == {c \in DOMAIN cols : cols[c] # "num"}
        all == ColsWhere(cols, LAMBDA c : TRUE)
    IN  IF it.raised # NoneVal THEN Raised(it.raised, Append(via, "frame"))
        ELSE IF Len(it.out) = 0 \/ bad = {} THEN Returned(all, Append(via, "frame"))
        ELSE IF agger.frame_exc # "TypeError"
        THEN Raised(agger.frame_exc, Append(via, "frame"))
        ELSE Raised(agger.col_exc, via \o << "frame", "column" >>)

\* DataFrameGroupBy._aggregate_item_by_item: self[item].agg(agger) for every
\* column; ValueError and TypeError drop the column
aggregate_item_by_item(cols, agger, via) ==
    IF \E c \in DOMAIN cols : cols[c] # "num" /\ agger.col_exc = "KeyError"
    THEN Raised(agger.col_exc, Append(via, "item_by_item"))
    ELSE Returned(ColsWhere(cols, LAMBDA c : cols[c] = "num"),
                  Append(via, "item_by_item"))

\* DataFrameGroupBy._aggregate_generic, axis 0: agger(data) for every group,
\* data.apply(agger) if that raises, and item by item if that raises too
aggregate_generic(cols, idx, groupers, agger, via) ==
    LET it == groupby_iter(idx, groupers)
        bad == {c \in DOMAIN cols : cols[c] # "num"}
        all == ColsWhere(cols, LAMBDA c : TRUE)
    IN  IF Len(it.out) = 0 \/ bad = {} THEN Returned(all, Append(via, "frame"))
        ELSE aggregate_item_by_item(cols, agger, via \o << "frame", "column" >>)

\* DataFrameGroupBy.aggregate(arg), arg a function
frame_aggregate(cols, idx, groupers, agger, via) ==
    IF Len(groupers) > 1
    THEN frame_python_agg_general(cols, idx, groupers, agger, via)
    ELSE aggregate_generic(cols, idx, groupers, agger, via)

\* GroupBy.mean
frame_mean(cols, idx, groupers) == cython_agg_general(cols, ALen(idx), groupers)

\* GroupBy.sum: the aggregate of np.sum on any exception
frame_sum(cols, idx, groupers, np_sum) ==
    LET fast == cython_agg_general(cols, ALen(idx), groupers)
    IN  IF fast.raised = None THEN fast
        ELSE frame_aggregate(cols, idx, groupers, np_sum, fast.via)

InitFrameAgg ==
    /\ scenario = "frameagg"
    /\ \E L \in 1..2 :
         \E n \in 0..(IF L = 1 THEN MaxRows ELSE MaxRows - 1) :
            /\ grouper \in UserGroupers(L, n)
            /\ index = RowLabels(n)
            /\ \E cols \in ColumnSets :
                 obj = [kind |-> "DataFrame", nrows |-> n, cols |-> cols]
    /\ c_labels = None
    /\ c_ids = None
    /\ c_counts = None
    /\ makeCalls = 0
    /\ func \in Aggers
    /\ result = [op |-> "none", raised |-> None]

\* grouped.mean()
Mean ==
    /\ scenario = "frameagg"
    /\ result.op = "none"
    /\ result' = [op |-> "mean"] @@ frame_mean(obj.cols, index, grouper)
    /\ UNCHANGED <<scenario, grouper, index, c_labels, c_ids, c_counts,
                   makeCalls, obj, func>>

\* grouped.sum(); func is np.sum
Sum ==
    /\ scenario = "frameagg"
    /\ result.op = "none"
    /\ result' = [op |-> "sum"] @@ frame_sum(obj.cols, index, grouper, func)
    /\ UNCHANGED <<scenario, grouper, index, c_labels, c_ids, c_counts,
                   makeCalls, obj, func>>

\* grouped.aggregate(func)
AggregateFrame ==
    /\ scenario = "frameagg"
    /\ result.op = "none"
    /\ result' = [op |-> "aggregate"] @@
                  frame_aggregate(obj.cols, index, grouper, func, << >>)
    /\ UNCHANGED <<scenario, grouper, index, c_labels, c_ids, c_counts,
                   makeCalls, obj, func>>

NextFrameAgg == Mean \/ Sum \/ AggregateFrame

SpecFrameAgg == InitFrameAgg /\ [][NextFrameAgg]_vars

\* C10: a DataFrame aggregate over at least one group, whose grouping itself
\* does not raise, returns the columns the reduction can be applied to and
\* raises nothing
C10_UnaggregatableColumnDropped ==
    (/\ scenario = "frameagg"
     /\ result.op \in {"mean", "sum", "aggregate"}
     /\ ~pings_raised(pings_of(grouper))
     /\ Len(groupby_iter(index, grouper).out) > 0)
    => /\ result.raised = None
       /\ result.columns = ColsWhere(obj.cols, LAMBDA c : obj.cols[c] = "num")

\* C11: for mean and for sum, an error on the vectorized path makes the
\* reduction run on the generic path, and the caller gets what the generic
\* path gives instead of that error (stated where the labelling of the keys
\* itself does not raise)
C11_FastPathErrorFallsBack ==
    (/\ scenario = "frameagg"
     /\ result.op \in {"mean", "sum"}
     /\ ~pings_raised(pings_of(grouper))
     /\ cython_agg_general(obj.cols, ALen(index), grouper).raised # None)
    => LET generic == frame_aggregate(obj.cols, index, grouper, func,
                                      << "cython" >>)
       IN  /\ result.via = generic.via
           /\ result.raised = generic.raised
           /\ result.columns = generic.columns

\* C12: when the key of every row is missing, the labelling completes: after
\* a read of labels, ids or counts the Grouping holds empty ids, the label -1
\* for every row and empty counts (a group-space extent of 0), and the read
\* raised nothing
C12_AllMissingYieldsNoGroup ==
    \A g \in Orderings :
        (/\ scenario = "grouping"
         /\ makeCalls[g] > 0
         /\ \A i \in DOMAIN grouper[g] : grouper[g][i] = NA)
        => /\ result[g].raised = NoneVal
           /\ c_ids[g] = Some(EmptyArr)
           /\ c_labels[g] = Some([i \in DOMAIN grouper[g] |-> -1])
           /\ c_counts[g] = Some(EmptyArr)

\* C13: with two keys or more, iteration yields every occupied key tuple
\* exactly once, in ascending lexicographic order of the codes of its levels,
\* as the tuple of the key values each level's ids give for those codes, with
\* exactly the rows of that cell; no yielded slice is empty
C13_MultiIterOccupiedOnce ==
    (/\ scenario = "groupby"
     /\ result.op = "iterate"
     /\ result.raised = NoneVal
     /\ NLevels >= 2)
    => LET pings == pings_of(grouper)
           out == result.out
           code_of(l, v) == CHOOSE c \in DOMAIN pings[l].ids : pings[l].ids[c] = v
           codes(j) == [l \in 1..NLevels |-> code_of(l, out[j].key[l])]
       IN  /\ {out[j].key : j \in DOMAIN out} = OccupiedKeys
           /\ Len(out) = Cardinality(OccupiedKeys)
           /\ \A j \in DOMAIN out :
                /\ Len(out[j].rows) > 0
                /\ Len(out[j].rows) = Cardinality(RowsOfKey(out[j].key))
                /\ Range(out[j].rows) = RowsOfKey(out[j].key)
                /\ \A l \in 1..NLevels :
                      \E c \in DOMAIN pings[l].ids : pings[l].ids[c] = out[j].key[l]
           /\ \A j, k \in DOMAIN out : j < k => TupleLess(codes(j), codes(k))

\* iteration under three keys that yields two tuples, the first level
\* ascending and the second descending, while cells of the group space have
\* no row
C13_Witness ==
    /\ scenario = "groupby"
    /\ result.op = "iterate"
    /\ result.raised = NoneVal
    /\ NLevels = 3
    /\ Len(result.out) = 2
    /\ result.out[1].key[1] < result.out[2].key[1]
    /\ result.out[1].key[2] > result.out[2].key[2]
    /\ Prod(group_shape(pings_of(grouper))) > 2

\* C14: whatever reads of labels, ids, counts, reverse_ids and group_index
\* were made, _make_labels has run at most once, and the labels, ids and
\* counts the Grouping holds, which every later read returns, are those of
\* that one run, set together
C14_LabelsComputedOnce ==
    \A g \in Orderings :
        scenario = "grouping" =>
            /\ makeCalls[g] <= 1
            /\ (c_labels[g] # None \/ c_ids[g] # None \/ c_counts[g] # None) =>
                    LET r == make_labels(grouper[g])
                    IN  /\ makeCalls[g] = 1
                        /\ c_labels[g] = Some(r.labels)
                        /\ c_ids[g] = Some(r.ids)
                        /\ c_counts[g] = Some(r.counts)

\* C15: in a transform that returns, every row that belongs to no group holds
\* its original value, and every row of a group on which the function
\* returns the group itself holds its original value too, whatever the
\* function returns on the other groups
C15_TransformWritesOwnRowsOnly ==
    LET it == UserIter
    IN  (/\ scenario = "userfunc"
         /\ result.op = "transform"
         /\ it.raised = NoneVal
         /\ result.raised = None)
        => LET values == Val(result.values)
               orig == Original(obj.kind, obj.nrows)
               grouped == UNION {Range(it.out[j].rows) : j \in DOMAIN it.out}
           IN  /\ DOMAIN values = DOMAIN orig
               /\ \A r \in DOMAIN orig \ grouped : values[r] = orig[r]
               /\ \A j \in DOMAIN it.out :
                    func_desc(func, j) = "identity" =>
                        \A r \in Range(it.out[j].rows) : values[r] = orig[r]

\* the pairs of one level, and of the levels below: every range is inside its
\* parent's, starts where the range of the code before it ends, and holds
\* exactly the positions of the reordered rows whose codes are the prefix
RECURSIVE RangesNested(_, _, _, _)
RangesNested(gen, prefix, plo, phi) ==
    \A j \in DOMAIN gen :
        LET codes == Append(prefix, gen[j].code)
        IN  /\ gen[j].lo <= gen[j].hi
            /\ plo <= gen[j].lo
            /\ gen[j].hi <= phi
            /\ j > 1 => gen[j].lo = gen[j - 1].hi
            /\ {q \in DOMAIN index :
                    \A l \in DOMAIN codes : result.sorted_labels[l][q] = codes[l]}
                 = gen[j].lo..(gen[j].hi - 1)
            /\ gen[j].leaf \/ RangesNested(gen[j].sub, codes, gen[j].lo, gen[j].hi)

\* C16: after _group_reorder, at every level and for every code prefix, the
\* row range of _generate_groups is contiguous and holds exactly the rows
\* whose codes match the prefix; sibling ranges are disjoint and ascending,
\* and every child range is inside its parent's range
C16_RangesContiguousNested ==
    (/\ scenario = "groupby"
     /\ result.op = "generate"
     /\ result.raised = NoneVal)
    => RangesNested(result.tree, << >>, 0, ALen(index))

\* two keys: the first code has two occupied cells, the second code has rows
\* but none with a second key, so that all its child ranges are empty
C16_Witness ==
    /\ scenario = "groupby"
    /\ result.op = "generate"
    /\ result.raised = NoneVal
    /\ NLevels = 2
    /\ Len(result.tree) = 2
    /\ Len(result.tree[1].sub) = 2
    /\ \A j \in 1..2 : result.tree[1].sub[j].lo < result.tree[1].sub[j].hi
    /\ result.tree[2].lo < result.tree[2].hi
    /\ \A j \in 1..2 : result.tree[2].sub[j].lo = result.tree[2].sub[j].hi

\* the pairs of level `which` (0-based), and of the levels below, are one per
\* code of the level, in ascending order of the code
RECURSIVE LevelsComplete(_, _, _)
LevelsComplete(gen, shape, which) ==
    /\ Len(gen) = shape[which + 1]
    /\ \A j \in DOMAIN gen :
            /\ gen[j].code = j - 1
            /\ gen[j].leaf = (which = Len(shape) - 1)
            /\ gen[j].leaf \/ LevelsComplete(gen[j].sub, shape, which + 1)

\* C17: at every level the generator yields one pair per code 0..shape-1 in
\* ascending order, also for codes without rows and inside empty parent
\* ranges; a full traversal ends after prod(shape) leaf slices; and a
\* further call of the factory gives the same traversal again, from code 0
C17_GeneratorCompleteAndFresh ==
    (/\ scenario = "groupby"
     /\ result.op = "generate"
     /\ result.raised = NoneVal)
    => LET shape == group_shape(pings_of(grouper))
       IN  /\ LevelsComplete(result.tree, shape, 0)
           /\ Len(result.out) = Prod(shape)
           /\ result.out = result.first
           /\ Len(result.out) > 0 =>
                    result.out[1].codes = [l \in 1..NLevels |-> 0]

\* a second traversal under three keys, with a pair whose range is empty and
\* whose subgenerator still yields its pair
C17_Witness ==
    /\ scenario = "groupby"
    /\ result.op = "generate"
    /\ result.raised = NoneVal
    /\ result.calls = 2
    /\ NLevels = 3
    /\ Len(result.out) = 4
    /\ \E j \in DOMAIN result.tree :
         \E k \in DOMAIN result.tree[j].sub :
            /\ result.tree[j].sub[k].lo = result.tree[j].sub[k].hi
            /\ Len(result.tree[j].sub[k].sub) = 1
            /\ Len(result.tree[j].sub[k].sub[1].rows) = 0

\* C18: when apply stacks frames whose indexes are all identical, the index
\* it builds (the fast path of _make_concat_multiindex) is the one the slow
\* path builds: the key value(s) of each group above each label of the shared
\* index, group after group, with one key as with several
C18_FastPathEqualsSlowPath ==
    LET it == UserIter
        groups == it.out
    IN  (/\ ApplyRan(it)
         /\ result.path = "hier"
         /\ \A j \in DOMAIN groups : ResultType(j) = "DataFrame"
         /\ \A j \in DOMAIN groups :
                out_index(func, j, groups[j].rows)
                    = out_index(func, 1, groups[1].rows))
        => /\ result.raised = None
           /\ result.index = StackedIndex(groups)

\* C19: the labelling a Grouping holds after sort_group_labels relabels the
\* raw one consistently: a row has the label -1 exactly when it had it, and
\* otherwise its new label leads to the key value and to the row count its
\* raw label led to
C19_ConsistentRelabelling ==
    \A g \in Orderings :
        (scenario = "grouping" /\ c_labels[g] # None) =>
            LET raw == group_labels(grouper[g])
                new_labels == Val(c_labels[g])
                new_ids == Val(c_ids[g])
                new_counts == Val(c_counts[g])
            IN  /\ DOMAIN new_labels = DOMAIN raw.labels
                /\ \A r \in DOMAIN raw.labels :
                      /\ (new_labels[r] = -1) = (raw.labels[r] = -1)
                      /\ raw.labels[r] # -1 =>
                            /\ new_labels[r] \in DOMAIN new_ids
                            /\ new_ids[new_labels[r]] = raw.ids[raw.labels[r]]
                            /\ new_counts[new_labels[r]] = raw.counts[raw.labels[r]]

\* the labelling was computed for rows whose two keys first occur in
\* descending order and have different row counts
C19_Witness ==
    \E g \in Orderings :
        /\ scenario = "grouping"
        /\ c_labels[g] # None
        /\ LET raw == group_labels(grouper[g])
           IN  /\ ALen(raw.ids) = 2
               /\ raw.ids[0] > raw.ids[1]
               /\ raw.counts[0] # raw.counts[1]

====
